---- MODULE Spec2Model ----
(***************************************************************************)
(* Model of darlinggo/site: the readmesync webhook server                  *)
(* (src/readmesync/main.go) and its syncall client (src/syncall/main.go).  *)
(*                                                                         *)
(* Byte strings ([]byte, header values) are sequences of byte values       *)
(* 0..255.  Refs are sequences of one-character strings, so that           *)
(* strings.Split is computed.  Repository names are atomic strings.        *)
(***************************************************************************)
EXTENDS Integers, Sequences, FiniteSets, TLC

\* ------------------------------------------------------------------------
\* Bounds of the model
\* ------------------------------------------------------------------------

\* Bytes of the modelled digest (sha1.Size is 20 in the real library).
DigestLen == 1

\* Longest repos list handed to syncAll.
MaxRepos == 2

\* ------------------------------------------------------------------------
\* Bytes, hex encoding, constant-time comparison
\* ------------------------------------------------------------------------

RECURSIVE BitXor(_, _)
\* a ^ b on naturals, bit by bit.
BitXor(a, b) ==
    IF a = 0 THEN b
    ELSE IF b = 0 THEN a
    ELSE (((a % 2) + (b % 2)) % 2) + 2 * BitXor(a \div 2, b \div 2)

RECURSIVE BitOr(_, _)
\* a | b on naturals, bit by bit.
BitOr(a, b) ==
    IF a = 0 THEN b
    ELSE IF b = 0 THEN a
    ELSE (IF (a % 2) + (b % 2) > 0 THEN 1 ELSE 0) + 2 * BitOr(a \div 2, b \div 2)

\* encoding/hex's digit table "0123456789abcdef" as byte values.
HexDigit(n) == IF n < 10 THEN 48 + n ELSE 97 + (n - 10)

RECURSIVE EncodeToString(_)
\* hex.EncodeToString: two lower-case hex digits per byte, high nibble first.
EncodeToString(bs) ==
    IF bs = <<>> THEN <<>>
    ELSE <<HexDigit((Head(bs)) \div 16), HexDigit((Head(bs)) % 16)>>
         \o EncodeToString(Tail(bs))

RECURSIVE XorFold(_, _, _)
\* The loop of subtle.ConstantTimeCompare: v |= x[i] ^ y[i] over all i.
XorFold(x, y, v) ==
    IF x = <<>> THEN v
    ELSE XorFold(Tail(x), Tail(y), BitOr(v, BitXor(Head(x), Head(y))))

\* Mutant of Equal: only compares the bytes both arguments have.
EqualPrefixOnly(x, y) ==
    LET n == IF Len(x) < Len(y) THEN Len(x) ELSE Len(y)
    IN  XorFold(SubSeq(x, 1, n), SubSeq(y, 1, n), 0) = 0

\* hmac.Equal(mac1, mac2): subtle.ConstantTimeCompare(mac1, mac2) == 1,
\* which is 0 at once when the lengths differ.
Equal(x, y) ==
    IF Len(x) # Len(y) THEN FALSE ELSE XorFold(x, y, 0) = 0

RECURSIVE Mix(_, _)
\* One pass of the modelled compression over a byte string.
Mix(acc, bs) ==
    IF bs = <<>> THEN acc
    ELSE Mix((acc * 31 + Head(bs) + 7) % 256, Tail(bs))

\* h := hmac.New(sha1.New, secret); h.Write(body); h.Sum(nil).
\* The digest is a deterministic keyed function of (secret, body); it is
\* modelled with DigestLen bytes instead of SHA-1's twenty.
HmacSum(secret, body) ==
    [k \in 1..DigestLen |->
        Mix(Mix(Mix(Mix(k, secret), <<k>>), body), secret)]

\* verifyWebhook(mac, body, secret) (bool, error).  hash.Hash's Write never
\* returns an error, so err is always nil.
verifyWebhook(mac, body, secret) ==
    LET expectedMac == EncodeToString(HmacSum(secret, body))
    IN  [ok |-> Equal(mac, expectedMac), err |-> FALSE]

\* "sha1=" as bytes: the tag syncall puts in front of the hex digest.
Sha1Prefix == <<115, 104, 97, 49, 61>>

\* The X-Hub-Signature value the syncall client builds for a body.
SignHeader(secret, body) ==
    Sha1Prefix \o EncodeToString(HmacSum(secret, body))

\* ------------------------------------------------------------------------
\* Inputs of the model
\* ------------------------------------------------------------------------

\* Values of env.hookSecret (WEBHOOK_SECRET), never empty (main exits).
Secrets == {<<107>>, <<107, 50>>}

\* Repository names.
Names == {"a", "b", "foo"}

RefMaster == <<"r","e","f","s","/","h","e","a","d","s","/","m","a","s","t","e","r">>
RefDev == <<"r","e","f","s","/","h","e","a","d","s","/","d","e","v">>
RefTwo == <<"r","e","f","s","/","h","e","a","d","s">>
RefTwoMaster == <<"h","e","a","d","s","/","m","a","s","t","e","r">>
RefFourMaster == <<"r","e","f","s","/","h","e","a","d","s","/","x","/","m","a","s","t","e","r">>
RefEmpty == <<>>

\* "master", the branch ServeHTTP publishes.
Master == <<"m","a","s","t","e","r">>

\* Request bodies.  raw is the byte string the signature is computed over;
\* decodes tells whether json.Unmarshal accepts it, and Ref, Name, Repos are
\* the fields of the decoded request struct.
Payload(raw, decodes, ref, name, rs) ==
    [raw |-> raw, decodes |-> decodes, Ref |-> ref, Name |-> name, Repos |-> rs]

Payloads ==
    { Payload(<<1>>, TRUE, RefMaster, "foo", <<>>),
      Payload(<<2>>, TRUE, RefDev, "foo", <<>>),
      Payload(<<3>>, TRUE, RefTwo, "foo", <<>>),
      Payload(<<4>>, TRUE, RefTwoMaster, "foo", <<>>),
      Payload(<<5>>, TRUE, RefFourMaster, "foo", <<>>),
      Payload(<<6>>, TRUE, RefEmpty, "", <<"a", "b">>),
      Payload(<<7>>, TRUE, RefMaster, "foo", <<"a", "b">>),
      Payload(<<8>>, FALSE, RefEmpty, "", <<>>) }

Methods == {"POST", "GET"}

\* Values of the X-Github-Event header ("" when absent).
Events == {"push", "ping", "sync-all", "issues", ""}

\* s with byte i xor-ed with m.
FlipByte(s, i, m) == [k \in 1..Len(s) |-> IF k = i THEN BitXor(s[k], m) ELSE s[k]]

\* Values of the X-Hub-Signature header for a body: absent, shorter than the
\* tag, the tag alone, the signature syncall computes, that signature with
\* its last bit flipped, and the right digest behind the tag "sha2=".
SigHeaders(secret, raw) ==
    LET good == SignHeader(secret, raw)
    IN  { <<>>,
          SubSeq(Sha1Prefix, 1, 4),
          Sha1Prefix,
          good,
          FlipByte(good, Len(good), 1),
          FlipByte(good, 4, 3) }

Requests(secret) ==
    { [method |-> m, event |-> ev, sig |-> h, readErr |-> re, payload |-> p] :
        m \in Methods, ev \in Events, re \in BOOLEAN,
        p \in Payloads, h \in UNION {SigHeaders(secret, q.raw) : q \in Payloads} }

\* What the document source does with one GET: it serves the README, it
\* serves a later revision of it, it answers another status, or the
\* transport fails.
Outcomes == {"ok", "ok2", "non200", "neterr"}

\* pullReadme(pkg, accessToken) ([]byte, error), given what the document
\* source answers: the body and nil on 200, the body and an error on another
\* status, nil and an error when the transport fails.
pullReadme(pkg, outcome) ==
    IF outcome = "ok" THEN [body |-> <<"readme", pkg>>, err |-> FALSE]
    ELSE IF outcome = "ok2" THEN [body |-> <<"readme2", pkg>>, err |-> FALSE]
    ELSE IF outcome = "non200" THEN [body |-> <<"errbody", pkg>>, err |-> TRUE]
    ELSE [body |-> <<>>, err |-> TRUE]

RECURSIVE Split(_, _)
\* strings.Split(s, sep) for a one-character sep: the pieces between the
\* separators, one more than there are separators ("" gives one empty piece).
Split(s, sep) ==
    IF \A k \in 1..Len(s) : s[k] # sep THEN <<s>>
    ELSE LET i == CHOOSE k \in 1..Len(s) :
                     s[k] = sep /\ \A j \in 1..(k - 1) : s[j] # sep
         IN  <<SubSeq(s, 1, i - 1)>> \o Split(SubSeq(s, i + 1, Len(s)), sep)

\* ------------------------------------------------------------------------
\* State
\* ------------------------------------------------------------------------

VARIABLES
    entry,      \* what is running: "ServeHTTP", "syncAll", "verifyWebhook"
                \* or "syncall" (the client program)
    hookSecret, \* env.hookSecret
    r,          \* the request ServeHTTP serves
    pc,         \* ServeHTTP's position
    status,     \* the codes given to w.WriteHeader, in order
    wbody,      \* what was given to w.Write, in order
    vcalls,     \* the calls of verifyWebhook: arguments and return value
    did,        \* the event-specific steps ServeHTTP has taken
    readmes,    \* ServeHTTP's readmes map
    todo,       \* keys of readmes the range loop has not visited yet
    created,    \* files os.Create has made
    written,    \* files tmpl.Execute has filled
    hugoRuns,   \* number of runs of the hugo command
    fetched,    \* the names pullReadme was called with, in order
    logged,     \* what log.Println printed, in order
    caller,     \* who called syncAll: "none", "direct" or "ServeHTTP"
    sa_pc,      \* position of syncAll's own goroutine
    repos,      \* syncAll's repos argument
    sa_i,       \* number of iterations of the launch loop done
    g,          \* the fetch goroutines, by launch index
    wg,         \* the WaitGroup's counter
    closer,     \* position of the goroutine that waits and closes
    chClosed,   \* whether resultChan is closed
    closes,     \* number of close(ch) calls
    results,    \* syncAll's results map
    ret,        \* the map syncAll returned
    crashed,    \* a goroutine of syncAll panicked
    cur,        \* the result the range loop has received and not yet stored
    writes,     \* the stores into results so far: who stored, whose result
    t_pc,       \* position of syncall's main
    t_env,      \* syncall's environment and arguments
    t_sent,     \* the requests syncall has sent
    t_exit,     \* syncall's exit code (-1 while it runs)
    v_in,       \* arguments of the verifyWebhook call under test
    v_out       \* its return value

hvars == <<hookSecret, r, pc, status, wbody, vcalls, did, readmes, todo,
           created, written, hugoRuns>>
svars == <<caller, sa_pc, repos, sa_i, g, wg, closer, chClosed, closes,
           results, ret, crashed, cur, writes>>
vvars == <<v_in, v_out>>
tvars == <<t_pc, t_env, t_sent, t_exit>>
vars == <<entry, hvars, svars, vvars, tvars, fetched, logged>>

\* The empty map.
EmptyMap == [n \in {} |-> <<>>]

\* Mutant of MapSet: a key that is present keeps its value.
MapSetIfAbsent(m, k, v) ==
    [n \in DOMAIN m \cup {k} |-> IF n \in DOMAIN m THEN m[n] ELSE v]

\* m[k] = v on a Go map.
MapSet(m, k, v) == [n \in DOMAIN m \cup {k} |-> IF n = k THEN v ELSE m[n]]

NoRequest == [method |-> "", event |-> "", sig |-> <<>>, readErr |-> FALSE,
              payload |-> Payload(<<>>, FALSE, <<>>, "", <<>>)]

HandlerIdle ==
    /\ pc = "idle" /\ r = NoRequest
    /\ status = <<>> /\ wbody = <<>> /\ vcalls = <<>> /\ did = {}
    /\ readmes = EmptyMap /\ todo = {} /\ created = {} /\ written = {}
    /\ hugoRuns = 0

SyncAllIdle ==
    /\ caller = "none" /\ sa_pc = "idle" /\ repos = <<>> /\ sa_i = 0
    /\ g = <<>> /\ wg = 0 /\ closer = "none" /\ chClosed = FALSE /\ closes = 0
    /\ results = EmptyMap /\ ret = EmptyMap /\ crashed = FALSE
    /\ cur = <<>> /\ writes = <<>>

VerifyIdle == v_in = <<>> /\ v_out = <<>>

TriggerIdle ==
    /\ t_pc = "idle" /\ t_env = <<>> /\ t_sent = <<>> /\ t_exit = -1

\* The http server hands a request to env.ServeHTTP.
InitServe ==
    /\ entry = "ServeHTTP"
    /\ hookSecret \in Secrets
    /\ r \in Requests(hookSecret)
    /\ pc = "method"
    /\ status = <<>> /\ wbody = <<>> /\ vcalls = <<>> /\ did = {}
    /\ readmes = EmptyMap /\ todo = {} /\ created = {} /\ written = {}
    /\ hugoRuns = 0
    /\ SyncAllIdle /\ VerifyIdle /\ TriggerIdle
    /\ fetched = <<>> /\ logged = <<>>

\* ------------------------------------------------------------------------
\* env.ServeHTTP
\* ------------------------------------------------------------------------

\* w.WriteHeader(code); return.
Respond(code) ==
    /\ status' = Append(status, code)
    /\ pc' = "responded"

\* if r.Method != "POST" { 405 }
CheckMethod ==
    /\ pc = "method"
    /\ IF r.method # "POST"
       THEN Respond(405)
       ELSE pc' = "event" /\ UNCHANGED status
    /\ UNCHANGED <<entry, hookSecret, r, wbody, vcalls, did, readmes, todo,
                   created, written, hugoRuns, svars, vvars, tvars, fetched, logged>>

\* event := r.Header.Get("X-Github-Event"); only push and ping pass.
CheckEvent ==
    /\ pc = "event"
    /\ IF r.event # "push" /\ r.event # "ping"
       THEN Respond(400)
       ELSE pc' = "readBody" /\ UNCHANGED status
    /\ UNCHANGED <<entry, hookSecret, r, wbody, vcalls, did, readmes, todo,
                   created, written, hugoRuns, svars, vvars, tvars, fetched, logged>>

\* body, err := ioutil.ReadAll(r.Body)
ReadBody ==
    /\ pc = "readBody"
    /\ IF r.readErr
       THEN Respond(500)
       ELSE pc' = "verify" /\ UNCHANGED status
    /\ UNCHANGED <<entry, hookSecret, r, wbody, vcalls, did, readmes, todo,
                   created, written, hugoRuns, svars, vvars, tvars, fetched, logged>>

\* Mutant of Verify: a request whose signature does not match goes on.
VerifyIgnoringMismatch ==
    /\ pc = "verify"
    /\ IF Len(r.sig) < 5
       THEN pc' = "panicked" /\ UNCHANGED <<status, vcalls>>
       ELSE LET mac == SubSeq(r.sig, 6, Len(r.sig))
                out == verifyWebhook(mac, r.payload.raw, hookSecret)
            IN  /\ vcalls' = Append(vcalls, [mac |-> mac, body |-> r.payload.raw, out |-> out])
                /\ IF out.err THEN Respond(500)
                   ELSE pc' = "ping" /\ UNCHANGED status
    /\ UNCHANGED <<entry, hookSecret, r, wbody, did, readmes, todo,
                   created, written, hugoRuns, svars, vvars, tvars, fetched, logged>>

\* ok, err := verifyWebhook([]byte(r.Header.Get("X-Hub-Signature")[5:]), body,
\* e.hookSecret).  The slice expression panics when the header has fewer than
\* five bytes; net/http recovers the panic and drops the connection, so no
\* status is written.  Otherwise the first five bytes are dropped unseen.
Verify ==
    /\ pc = "verify"
    /\ IF Len(r.sig) < 5
       THEN pc' = "panicked" /\ UNCHANGED <<status, vcalls>>
       ELSE LET mac == SubSeq(r.sig, 6, Len(r.sig))
                out == verifyWebhook(mac, r.payload.raw, hookSecret)
            IN  /\ vcalls' = Append(vcalls, [mac |-> mac, body |-> r.payload.raw, out |-> out])
                /\ IF out.err THEN Respond(500)
                   ELSE IF ~out.ok THEN Respond(400)
                   ELSE pc' = "ping" /\ UNCHANGED status
    /\ UNCHANGED <<entry, hookSecret, r, wbody, did, readmes, todo,
                   created, written, hugoRuns, svars, vvars, tvars, fetched, logged>>

\* Mutant of Ping: the return after the pong is missing.
PingNoReturn ==
    /\ pc = "ping"
    /\ IF r.event = "ping"
       THEN /\ status' = Append(status, 200)
            /\ pc' = "decode"
            /\ wbody' = Append(wbody, "pong")
            /\ did' = did \cup {"pong"}
       ELSE pc' = "decode" /\ UNCHANGED <<status, wbody, did>>
    /\ UNCHANGED <<entry, hookSecret, r, vcalls, readmes, todo,
                   created, written, hugoRuns, svars, vvars, tvars, fetched, logged>>

\* if event == "ping" { 200, "pong" }
Ping ==
    /\ pc = "ping"
    /\ IF r.event = "ping"
       THEN /\ Respond(200)
            /\ wbody' = Append(wbody, "pong")
            /\ did' = did \cup {"pong"}
       ELSE pc' = "decode" /\ UNCHANGED <<status, wbody, did>>
    /\ UNCHANGED <<entry, hookSecret, r, vcalls, readmes, todo,
                   created, written, hugoRuns, svars, vvars, tvars, fetched, logged>>

\* err = json.Unmarshal(body, &req)
Unmarshal ==
    /\ pc = "decode"
    /\ did' = did \cup {"decode"}
    /\ IF ~r.payload.decodes
       THEN Respond(400)
       ELSE pc' = "dispatch" /\ UNCHANGED status
    /\ UNCHANGED <<entry, hookSecret, r, wbody, vcalls, readmes, todo,
                   created, written, hugoRuns, svars, vvars, tvars, fetched, logged>>

\* Mutant of Dispatch: the branch is not compared with master.
DispatchAnyBranch ==
    /\ pc = "dispatch"
    /\ IF r.event = "sync-all"
       THEN /\ did' = did \cup {"syncAll"}
            /\ pc' = "syncAll"
            /\ caller' = "ServeHTTP"
            /\ sa_pc' = "loop"
            /\ repos' = r.payload.Repos
            /\ UNCHANGED status
       ELSE /\ did' = did \cup {"parseRef"}
            /\ UNCHANGED <<caller, sa_pc, repos>>
            /\ LET ref == Split(r.payload.Ref, "/")
               IN  IF Len(ref) # 3 THEN Respond(400)
                   ELSE pc' = "pull" /\ UNCHANGED status
    /\ UNCHANGED <<entry, hookSecret, r, wbody, vcalls, readmes, todo,
                   created, written, hugoRuns, sa_i, g, wg, closer, chClosed,
                   closes, results, ret, crashed, cur, writes, vvars, tvars, fetched, logged>>

\* Mutant of Dispatch: refs of more than three segments pass.
DispatchAtLeastThree ==
    /\ pc = "dispatch"
    /\ IF r.event = "sync-all"
       THEN /\ did' = did \cup {"syncAll"}
            /\ pc' = "syncAll"
            /\ caller' = "ServeHTTP"
            /\ sa_pc' = "loop"
            /\ repos' = r.payload.Repos
            /\ UNCHANGED status
       ELSE /\ did' = did \cup {"parseRef"}
            /\ UNCHANGED <<caller, sa_pc, repos>>
            /\ LET ref == Split(r.payload.Ref, "/")
               IN  IF Len(ref) < 3 THEN Respond(400)
                   ELSE IF ref[3] # Master THEN Respond(200)
                   ELSE pc' = "pull" /\ UNCHANGED status
    /\ UNCHANGED <<entry, hookSecret, r, wbody, vcalls, readmes, todo,
                   created, written, hugoRuns, sa_i, g, wg, closer, chClosed,
                   closes, results, ret, crashed, cur, writes, vvars, tvars, fetched, logged>>

\* var readmes; if event == "sync-all" { readmes = syncAll(req.Repos, ...) ...
\* } else { ref := strings.Split(req.Ref, "/"); ... }.  The call of syncAll
\* starts its launch loop; SyncAllReturn gives control back.
Dispatch ==
    /\ pc = "dispatch"
    /\ IF r.event = "sync-all"
       THEN /\ did' = did \cup {"syncAll"}
            /\ pc' = "syncAll"
            /\ caller' = "ServeHTTP"
            /\ sa_pc' = "loop"
            /\ repos' = r.payload.Repos
            /\ UNCHANGED status
       ELSE /\ did' = did \cup {"parseRef"}
            /\ UNCHANGED <<caller, sa_pc, repos>>
            /\ LET ref == Split(r.payload.Ref, "/")
               IN  IF Len(ref) # 3 THEN Respond(400)
                   ELSE IF ref[3] # Master THEN Respond(200)
                   ELSE pc' = "pull" /\ UNCHANGED status
    /\ UNCHANGED <<entry, hookSecret, r, wbody, vcalls, readmes, todo,
                   created, written, hugoRuns, sa_i, g, wg, closer, chClosed,
                   closes, results, ret, crashed, cur, writes, vvars, tvars, fetched, logged>>

\* Mutant of Pull: a failed fetch is tried a second time.
PullWithRetry ==
    /\ pc = "pull"
    /\ \E o \in Outcomes :
         LET name == r.payload.Name
             out == pullReadme(name, o)
         IN  /\ fetched' = IF out.err THEN fetched \o <<name, name>>
                                     ELSE Append(fetched, name)
             /\ did' = did \cup {"fetch"}
             /\ IF out.err
                THEN /\ logged' = Append(logged, [err |-> o, name |-> name])
                     /\ Respond(500)
                     /\ UNCHANGED <<readmes, todo>>
                ELSE /\ readmes' = MapSet(EmptyMap, name, out.body)
                     /\ todo' = {name}
                     /\ pc' = "write"
                     /\ UNCHANGED <<logged, status>>
    /\ UNCHANGED <<entry, hookSecret, r, wbody, vcalls,
                   created, written, hugoRuns, svars, vvars, tvars>>

\* Mutant of Pull: the return after a failed fetch is missing.
PullNoReturn ==
    /\ pc = "pull"
    /\ \E o \in Outcomes :
         LET name == r.payload.Name
             out == pullReadme(name, o)
         IN  /\ fetched' = Append(fetched, name)
             /\ did' = did \cup {"fetch"}
             /\ IF out.err
                THEN /\ logged' = Append(logged, [err |-> o, name |-> name])
                     /\ status' = Append(status, 500)
                     /\ readmes' = MapSet(EmptyMap, name, out.body)
                     /\ todo' = {name}
                     /\ pc' = "write"
                ELSE /\ readmes' = MapSet(EmptyMap, name, out.body)
                     /\ todo' = {name}
                     /\ pc' = "write"
                     /\ UNCHANGED <<logged, status>>
    /\ UNCHANGED <<entry, hookSecret, r, wbody, vcalls,
                   created, written, hugoRuns, svars, vvars, tvars>>

\* readme, err := pullReadme(req.Repository.Name, e.githubToken), and
\* readmes = map[string][]byte{req.Repository.Name: readme}.
Pull ==
    /\ pc = "pull"
    /\ \E o \in Outcomes :
         LET name == r.payload.Name
             out == pullReadme(name, o)
         IN  /\ fetched' = Append(fetched, name)
             /\ did' = did \cup {"fetch"}
             /\ IF out.err
                THEN /\ logged' = Append(logged, [err |-> o, name |-> name])
                     /\ Respond(500)
                     /\ UNCHANGED <<readmes, todo>>
                ELSE /\ readmes' = MapSet(EmptyMap, name, out.body)
                     /\ todo' = {name}
                     /\ pc' = "write"
                     /\ UNCHANGED <<logged, status>>
    /\ UNCHANGED <<entry, hookSecret, r, wbody, vcalls,
                   created, written, hugoRuns, svars, vvars, tvars>>

\* What one iteration of the write loop meets.
FileOutcomes == {"ok", "createErr", "executeErr"}

\* Mutant of WriteFile: a failed write is logged and the loop goes on.
WriteFileIgnoringError ==
    /\ pc = "write"
    /\ \E repo \in todo, o \in FileOutcomes :
         /\ did' = did \cup {"write"}
         /\ created' = IF o = "createErr" THEN created ELSE created \cup {repo}
         /\ written' = IF o = "ok" THEN written \cup {repo} ELSE written
         /\ IF o # "ok"
            THEN /\ logged' = Append(logged, [err |-> o, name |-> repo])
                 /\ todo' = todo \ {repo}
                 /\ pc' = IF todo' = {} THEN "hugo" ELSE "write"
                 /\ UNCHANGED status
            ELSE /\ todo' = todo \ {repo}
                 /\ pc' = IF todo' = {} THEN "hugo" ELSE "write"
                 /\ UNCHANGED <<logged, status>>
    /\ UNCHANGED <<entry, hookSecret, r, wbody, vcalls, readmes,
                   hugoRuns, svars, vvars, tvars, fetched>>

\* One iteration of for repo, readme := range readmes: os.Create, then
\* tmpl.Execute; either failing logs and answers 500.
WriteFile ==
    /\ pc = "write"
    /\ \E repo \in todo, o \in FileOutcomes :
         /\ did' = did \cup {"write"}
         /\ created' = IF o = "createErr" THEN created ELSE created \cup {repo}
         /\ written' = IF o = "ok" THEN written \cup {repo} ELSE written
         /\ IF o # "ok"
            THEN /\ logged' = Append(logged, [err |-> o, name |-> repo])
                 /\ Respond(500)
                 /\ UNCHANGED todo
            ELSE /\ todo' = todo \ {repo}
                 /\ pc' = IF todo' = {} THEN "hugo" ELSE "write"
                 /\ UNCHANGED <<logged, status>>
    /\ UNCHANGED <<entry, hookSecret, r, wbody, vcalls, readmes,
                   hugoRuns, svars, vvars, tvars, fetched>>

\* Mutant of RunHugo: hugo's exit status is logged and then ignored.
RunHugoIgnoringExit ==
    /\ pc = "hugo"
    /\ \E o \in {"ok", "exitErr"} :
         /\ did' = did \cup {"hugo"}
         /\ hugoRuns' = hugoRuns + 1
         /\ IF o = "exitErr"
            THEN /\ logged' = Append(logged, [err |-> o, name |-> "hugo"])
                 /\ Respond(200)
            ELSE /\ logged' = Append(logged, [err |-> "", name |-> "hugo"])
                 /\ Respond(200)
    /\ UNCHANGED <<entry, hookSecret, r, wbody, vcalls, readmes, todo,
                   created, written, svars, vvars, tvars, fetched>>

\* output, err := exec.Command(e.hugoCmd, ...).CombinedOutput()
RunHugo ==
    /\ pc = "hugo"
    /\ \E o \in {"ok", "exitErr"} :
         /\ did' = did \cup {"hugo"}
         /\ hugoRuns' = hugoRuns + 1
         /\ IF o = "exitErr"
            THEN /\ logged' = Append(logged, [err |-> o, name |-> "hugo"])
                 /\ Respond(500)
            ELSE /\ logged' = Append(logged, [err |-> "", name |-> "hugo"])
                 /\ Respond(200)
    /\ UNCHANGED <<entry, hookSecret, r, wbody, vcalls, readmes, todo,
                   created, written, svars, vvars, tvars, fetched>>

\* ------------------------------------------------------------------------
\* syncAll
\* ------------------------------------------------------------------------

RECURSIVE Seqs(_, _)
\* The sequences over S of length at most n.
Seqs(S, n) ==
    IF n = 0 THEN {<<>>}
    ELSE LET shorter == Seqs(S, n - 1)
         IN  shorter \cup {Append(q, x) : q \in shorter, x \in S}

\* A caller other than ServeHTTP calls syncAll(repos, token).
InitSyncAll ==
    /\ entry = "syncAll"
    /\ hookSecret \in Secrets
    /\ HandlerIdle /\ VerifyIdle /\ TriggerIdle
    /\ caller = "direct"
    /\ sa_pc = "loop"
    /\ repos \in Seqs(Names, MaxRepos)
    /\ sa_i = 0 /\ g = <<>> /\ wg = 0 /\ closer = "none"
    /\ chClosed = FALSE /\ closes = 0
    /\ results = EmptyMap /\ ret = EmptyMap /\ crashed = FALSE
    /\ cur = <<>> /\ writes = <<>>
    /\ fetched = <<>> /\ logged = <<>>

\* Mutant of Launch: the wg.Add(1) is missing.
LaunchWithoutAdd ==
    /\ sa_pc = "loop"
    /\ sa_i < Len(repos)
    /\ wg' = wg
    /\ g' = Append(g, [r |-> repos[sa_i + 1], pc |-> "fetch", res |-> "none",
                       body |-> <<>>])
    /\ sa_i' = sa_i + 1
    /\ UNCHANGED <<entry, hvars, vvars, tvars, fetched, logged, caller, sa_pc, repos,
                   closer, chClosed, closes, results, ret, crashed, cur, writes>>

\* One iteration of for _, repo := range repos: wg.Add(1) and go func(...).
Launch ==
    /\ sa_pc = "loop"
    /\ sa_i < Len(repos)
    /\ wg' = wg + 1
    /\ g' = Append(g, [r |-> repos[sa_i + 1], pc |-> "fetch", res |-> "none",
                       body |-> <<>>])
    /\ sa_i' = sa_i + 1
    /\ UNCHANGED <<entry, hvars, vvars, tvars, fetched, logged, caller, sa_pc, repos,
                   closer, chClosed, closes, results, ret, crashed, cur, writes>>

\* After the loop: go func(...) { wg.Wait(); close(ch) }, and syncAll goes on
\* to range over resultChan.
LaunchCloser ==
    /\ sa_pc = "loop"
    /\ sa_i = Len(repos)
    /\ closer' = "wait"
    /\ sa_pc' = "range"
    /\ UNCHANGED <<entry, hvars, vvars, tvars, fetched, logged, caller, repos, sa_i,
                   g, wg, chClosed, closes, results, ret, crashed, cur, writes>>

\* Mutant of Fetch: the return after the log is missing.
FetchNoReturn(i) ==
    /\ g[i].pc = "fetch"
    /\ \E o \in Outcomes :
         LET out == pullReadme(g[i].r, o)
         IN  /\ fetched' = Append(fetched, g[i].r)
             /\ IF out.err
                THEN /\ logged' = Append(logged, [err |-> o, name |-> g[i].r])
                     /\ g' = [g EXCEPT ![i].pc = "send", ![i].res = "failed",
                                       ![i].body = out.body]
                ELSE /\ UNCHANGED logged
                     /\ g' = [g EXCEPT ![i].pc = "send", ![i].res = "ok",
                                       ![i].body = out.body]
    /\ UNCHANGED <<entry, hvars, vvars, tvars, caller, sa_pc, repos, sa_i, wg,
                   closer, chClosed, closes, results, ret, crashed, cur, writes>>

\* Mutant of Fetch: wg.Done is not deferred and the early return skips it.
FetchNoDoneOnError(i) ==
    /\ g[i].pc = "fetch"
    /\ \E o \in Outcomes :
         LET out == pullReadme(g[i].r, o)
         IN  /\ fetched' = Append(fetched, g[i].r)
             /\ IF out.err
                THEN /\ logged' = Append(logged, [err |-> o, name |-> g[i].r])
                     /\ g' = [g EXCEPT ![i].pc = "done", ![i].res = "failed"]
                ELSE /\ UNCHANGED logged
                     /\ g' = [g EXCEPT ![i].pc = "send", ![i].res = "ok",
                                       ![i].body = out.body]
    /\ UNCHANGED <<entry, hvars, vvars, tvars, caller, sa_pc, repos, sa_i, wg,
                   closer, chClosed, closes, results, ret, crashed, cur, writes>>

\* In a fetch goroutine: resp, err := pullReadme(r, token); on an error
\* log.Println(err) and return, leaving the deferred wg.Done to run.
Fetch(i) ==
    /\ g[i].pc = "fetch"
    /\ \E o \in Outcomes :
         LET out == pullReadme(g[i].r, o)
         IN  /\ fetched' = Append(fetched, g[i].r)
             /\ IF out.err
                THEN /\ logged' = Append(logged, [err |-> o, name |-> g[i].r])
                     /\ g' = [g EXCEPT ![i].pc = "exit", ![i].res = "failed"]
                ELSE /\ UNCHANGED logged
                     /\ g' = [g EXCEPT ![i].pc = "send", ![i].res = "ok",
                                       ![i].body = out.body]
    /\ UNCHANGED <<entry, hvars, vvars, tvars, caller, sa_pc, repos, sa_i, wg,
                   closer, chClosed, closes, results, ret, crashed, cur, writes>>

\* Mutant of Send: the fetch goroutine stores its result itself.
SendStoresItself(i) ==
    /\ g[i].pc = "send"
    /\ results' = MapSet(results, g[i].r, g[i].body)
    /\ writes' = Append(writes, [by |-> "fetch", from |-> i])
    /\ g' = [g EXCEPT ![i].pc = "exit"]
    /\ UNCHANGED <<entry, hvars, vvars, tvars, fetched, logged, caller, sa_pc,
                   repos, sa_i, wg, closer, chClosed, closes, ret, crashed, cur>>

\* ch <- result{body: resp, repo: r} meets the receive of
\* for result := range resultChan.  The channel is unbuffered: the send
\* waits for syncAll to be at the head of its range loop.  A send on a
\* closed channel panics.
Send(i) ==
    /\ g[i].pc = "send"
    /\ IF chClosed THEN TRUE ELSE sa_pc = "range"
    /\ IF chClosed
       THEN /\ crashed' = TRUE
            /\ g' = [g EXCEPT ![i].pc = "done"]
            /\ UNCHANGED <<sa_pc, cur>>
       ELSE /\ cur' = <<[repo |-> g[i].r, body |-> g[i].body, from |-> i]>>
            /\ sa_pc' = "store"
            /\ g' = [g EXCEPT ![i].pc = "exit"]
            /\ UNCHANGED crashed
    /\ UNCHANGED <<entry, hvars, vvars, tvars, fetched, logged, caller, repos,
                   sa_i, wg, closer, chClosed, closes, results, ret, writes>>

\* The body of the range loop, in syncAll's own goroutine:
\* results[result.repo] = result.body.
Store ==
    /\ sa_pc = "store"
    /\ results' = MapSet(results, cur[1].repo, cur[1].body)
    /\ writes' = Append(writes, [by |-> "syncAll", from |-> cur[1].from])
    /\ cur' = <<>>
    /\ sa_pc' = "range"
    /\ UNCHANGED <<entry, hvars, vvars, tvars, fetched, logged, caller, repos,
                   sa_i, g, wg, closer, chClosed, closes, ret, crashed>>

\* The deferred wg.Done() of a fetch goroutine.
Done(i) ==
    /\ g[i].pc = "exit"
    /\ wg' = wg - 1
    /\ g' = [g EXCEPT ![i].pc = "done"]
    /\ UNCHANGED <<entry, hvars, vvars, tvars, fetched, logged, caller, sa_pc, repos,
                   sa_i, closer, chClosed, closes, results, ret, crashed, cur, writes>>

\* Mutant of Wait: the closer does not wait for the counter.
WaitNoBarrier ==
    /\ closer = "wait"
    /\ closer' = "close"
    /\ UNCHANGED <<entry, hvars, vvars, tvars, fetched, logged, caller, sa_pc, repos,
                   sa_i, g, wg, chClosed, closes, results, ret, crashed, cur, writes>>

\* wg.Wait() returns once the counter is zero.
Wait ==
    /\ closer = "wait"
    /\ wg = 0
    /\ closer' = "close"
    /\ UNCHANGED <<entry, hvars, vvars, tvars, fetched, logged, caller, sa_pc, repos,
                   sa_i, g, wg, chClosed, closes, results, ret, crashed, cur, writes>>

\* close(ch); closing a closed channel would panic.
Close ==
    /\ closer = "close"
    /\ closer' = "done"
    /\ closes' = closes + 1
    /\ chClosed' = TRUE
    /\ crashed' = (crashed \/ chClosed)
    /\ UNCHANGED <<entry, hvars, vvars, tvars, fetched, logged, caller, sa_pc,
                   repos, sa_i, g, wg, results, ret, cur, writes>>

\* The range loop ends when the channel is closed, and syncAll returns
\* results.  Back in ServeHTTP the sync-all branch then answers 200.
SyncAllReturn ==
    /\ sa_pc = "range"
    /\ chClosed
    /\ sa_pc' = "returned"
    /\ ret' = results
    /\ IF caller = "ServeHTTP"
       THEN /\ readmes' = results
            /\ Respond(200)
       ELSE UNCHANGED <<readmes, pc, status>>
    /\ UNCHANGED <<entry, hookSecret, r, wbody, vcalls, did, todo, created,
                   written, hugoRuns, vvars, tvars, fetched, logged, caller, repos,
                   sa_i, g, wg, closer, chClosed, closes, results, crashed, cur, writes>>

\* ------------------------------------------------------------------------
\* verifyWebhook on its own
\* ------------------------------------------------------------------------

RECURSIVE Pow2(_)
Pow2(n) == IF n = 0 THEN 1 ELSE 2 * Pow2(n - 1)

\* Upper-case form of a hex digit byte.
Upper(c) == IF c >= 97 /\ c <= 102 THEN c - 32 ELSE c

VerifyBodies == {<<>>, <<1>>, <<1, 2>>, <<255>>}

\* Signatures tried against a body: the right one, each single-bit mutation
\* of it, a truncation, an extension, the empty one, its upper-case spelling
\* and the right signature of another body.
Macs(secret, body) ==
    LET good == EncodeToString(HmacSum(secret, body))
    IN  {good}
        \cup {FlipByte(good, i, Pow2(b)) : i \in 1..Len(good), b \in 0..7}
        \cup { SubSeq(good, 1, Len(good) - 1),
               Append(good, 48),
               <<>>,
               [k \in 1..Len(good) |-> Upper(good[k])],
               EncodeToString(HmacSum(secret, Append(body, 9))) }

InitVerify ==
    /\ entry = "verifyWebhook"
    /\ hookSecret \in Secrets
    /\ HandlerIdle /\ SyncAllIdle /\ TriggerIdle
    /\ fetched = <<>> /\ logged = <<>>
    /\ \E b \in VerifyBodies :
         \E m \in Macs(hookSecret, b) :
            v_in = <<[mac |-> m, body |-> b, secret |-> hookSecret]>>
    /\ v_out = <<>>

\* The call verifyWebhook(mac, body, secret).
CallVerify ==
    /\ entry = "verifyWebhook"
    /\ v_out = <<>>
    /\ v_out' = <<verifyWebhook(v_in[1].mac, v_in[1].body, v_in[1].secret)>>
    /\ UNCHANGED <<entry, hvars, svars, tvars, v_in, fetched, logged>>

\* ------------------------------------------------------------------------
\* The syncall client (src/syncall/main.go)
\* ------------------------------------------------------------------------

\* The bytes of a repository name.
NameBytes(n) ==
    IF n = "a" THEN <<97>>
    ELSE IF n = "b" THEN <<98>>
    ELSE <<102, 111, 111>>

RECURSIVE JoinNames(_)
\* The elements of a JSON array of strings: "n1","n2",...
JoinNames(ns) ==
    IF ns = <<>> THEN <<>>
    ELSE <<34>> \o NameBytes(Head(ns)) \o <<34>>
         \o (IF Tail(ns) = <<>> THEN <<>> ELSE <<44>>)
         \o JoinNames(Tail(ns))

\* json.Marshal(request{Repos: repos}): {"repos":[...]}.
Marshal(ns) ==
    <<123, 34, 114, 101, 112, 111, 115, 34, 58, 91>> \o JoinNames(ns) \o <<93, 125>>

\* Values of HOOK_URL: unset, a URL, and a string http.NewRequest rejects.
Endpoints == {"", "http://hook", ":bad"}

\* What http.DefaultClient.Do meets: a transport error or an answer.
DoOutcomes == {"neterr", "200", "400"}

\* syncall is started with its environment and command line.
InitTrigger ==
    /\ entry = "syncall"
    /\ hookSecret \in Secrets
    /\ HandlerIdle /\ SyncAllIdle /\ VerifyIdle
    /\ fetched = <<>> /\ logged = <<>>
    /\ t_env \in [secret : {<<>>} \cup Secrets,
                  endpoint : Endpoints,
                  args : Seqs(Names, MaxRepos)]
    /\ t_pc = "secret"
    /\ t_sent = <<>>
    /\ t_exit = -1

\* log.Println(msg); os.Exit(code), or a panic (exit code 2).
Exit(code, msg) ==
    /\ t_pc' = "exited"
    /\ t_exit' = code
    /\ logged' = Append(logged, [err |-> msg, name |-> "syncall"])

\* if secret == "" { log; os.Exit(1) }
CheckSecret ==
    /\ t_pc = "secret"
    /\ IF t_env.secret = <<>>
       THEN Exit(1, "GITHUB_SECRET must be set")
       ELSE t_pc' = "endpoint" /\ UNCHANGED <<t_exit, logged>>
    /\ UNCHANGED <<entry, hvars, svars, vvars, t_env, t_sent, fetched>>

\* if endpoint == "" { log; os.Exit(1) }
CheckEndpoint ==
    /\ t_pc = "endpoint"
    /\ IF t_env.endpoint = ""
       THEN Exit(1, "HOOK_URL must be set")
       ELSE t_pc' = "args" /\ UNCHANGED <<t_exit, logged>>
    /\ UNCHANGED <<entry, hvars, svars, vvars, t_env, t_sent, fetched>>

\* Mutant of CheckArgs: the test is len(os.Args) < 1.
CheckArgsOffByOne ==
    /\ t_pc = "args"
    /\ IF Len(t_env.args) + 1 < 1
       THEN Exit(1, "Usage")
       ELSE t_pc' = "build" /\ UNCHANGED <<t_exit, logged>>
    /\ UNCHANGED <<entry, hvars, svars, vvars, t_env, t_sent, fetched>>

\* if len(os.Args) < 2 { log usage; os.Exit(1) }; os.Args[0] is the program.
CheckArgs ==
    /\ t_pc = "args"
    /\ IF Len(t_env.args) + 1 < 2
       THEN Exit(1, "Usage")
       ELSE t_pc' = "build" /\ UNCHANGED <<t_exit, logged>>
    /\ UNCHANGED <<entry, hvars, svars, vvars, t_env, t_sent, fetched>>

\* b := json.Marshal(...), the HMAC of b, http.NewRequest("POST", endpoint,
\* buf) and the two headers.  json.Marshal and h.Write do not fail here;
\* http.NewRequest fails on a URL it cannot parse, and main panics.
Build ==
    /\ t_pc = "build"
    /\ IF t_env.endpoint = ":bad"
       THEN Exit(2, "panic")
       ELSE t_pc' = "do" /\ UNCHANGED <<t_exit, logged>>
    /\ UNCHANGED <<entry, hvars, svars, vvars, t_env, t_sent, fetched>>

\* resp, err := http.DefaultClient.Do(req); a transport error panics.
Do ==
    /\ t_pc = "do"
    /\ \E o \in DoOutcomes :
         LET b == Marshal(t_env.args)
         IN  /\ t_sent' = Append(t_sent,
                    [method |-> "POST", url |-> t_env.endpoint,
                     event |-> "sync-all",
                     sig |-> SignHeader(t_env.secret, b),
                     body |-> b, out |-> o])
             /\ IF o = "neterr"
                THEN Exit(2, "panic")
                ELSE t_pc' = "read" /\ UNCHANGED <<t_exit, logged>>
    /\ UNCHANGED <<entry, hvars, svars, vvars, t_env, fetched>>

\* body, err := ioutil.ReadAll(resp.Body); log the status; main returns.
ReadResponse ==
    /\ t_pc = "read"
    /\ \E readErr \in BOOLEAN :
         IF readErr
         THEN Exit(2, "panic")
         ELSE Exit(0, t_sent[1].out)
    /\ UNCHANGED <<entry, hvars, svars, vvars, t_env, t_sent, fetched>>

NextTrigger ==
    \/ CheckSecret
    \/ CheckEndpoint
    \/ CheckArgs
    \/ Build
    \/ Do
    \/ ReadResponse

\* A run of the syncall client.
SpecTrigger == InitTrigger /\ [][NextTrigger]_vars

\* ------------------------------------------------------------------------
\* Specifications
\* ------------------------------------------------------------------------

Init == InitServe \/ InitSyncAll

Next ==
    \/ CheckMethod
    \/ CheckEvent
    \/ ReadBody
    \/ Verify
    \/ Ping
    \/ Unmarshal
    \/ Dispatch
    \/ Pull
    \/ WriteFile
    \/ RunHugo
    \/ Launch
    \/ LaunchCloser
    \/ \E i \in 1..Len(g) : Fetch(i)
    \/ \E i \in 1..Len(g) : Send(i)
    \/ Store
    \/ \E i \in 1..Len(g) : Done(i)
    \/ Wait
    \/ Close
    \/ SyncAllReturn

\* A request served by ServeHTTP, or a call of syncAll.
Spec == Init /\ [][Next]_vars

\* A call of verifyWebhook.
SpecVerify == InitVerify /\ [][CallVerify]_vars

\* The steps of syncAll and of the goroutines it starts.
NextSyncAll ==
    \/ Launch
    \/ LaunchCloser
    \/ \E i \in 1..Len(g) : Fetch(i)
    \/ \E i \in 1..Len(g) : Send(i)
    \/ \E i \in 1..Len(g) : Done(i)
    \/ Store
    \/ Wait
    \/ Close
    \/ SyncAllReturn

\* A call of syncAll in which every fetch returns (Fetch is one step) and
\* the Go scheduler keeps running a goroutine that can run.
FairSyncAll == InitSyncAll /\ [][NextSyncAll]_vars /\ WF_vars(NextSyncAll)

\* ------------------------------------------------------------------------
\* Vocabulary of the properties
\* ------------------------------------------------------------------------

\* ServeHTTP is over: it returned, or it panicked and the server dropped
\* the connection.
Finished == pc \in {"responded", "panicked"}

\* The verifier was called for this request and returned true.
VerifierTrue ==
    /\ Len(vcalls) = 1
    /\ vcalls[1].out.ok /\ ~vcalls[1].out.err
    /\ vcalls[1].body = r.payload.raw
    /\ vcalls[1].mac = SubSeq(r.sig, 6, Len(r.sig))

\* ServeHTTP is past the signature check.
PastGate ==
    \/ pc \in {"ping", "decode", "dispatch", "pull", "write", "hugo", "syncAll"}
    \/ did # {}

\* No document was fetched, no content file touched, hugo not run.
NoSideEffects ==
    fetched = <<>> /\ created = {} /\ written = {} /\ hugoRuns = 0

\* The number of '/'-delimited segments of a ref, and the last of them.
NumSegments(ref) == 1 + Cardinality({k \in 1..Len(ref) : ref[k] = "/"})
LastSegment(ref) ==
    LET slashes == {k \in 1..Len(ref) : ref[k] = "/"}
        from == IF slashes = {} THEN 0
                ELSE CHOOSE k \in slashes : \A j \in slashes : j <= k
    IN  SubSeq(ref, from + 1, Len(ref))

\* An authenticated push whose body decodes.
AuthPush == r.event = "push" /\ VerifierTrue /\ r.payload.decodes

\* The launched fetches of syncAll that failed, and the names fetched well.
FailedFetches == {i \in 1..Len(g) : g[i].res = "failed"}
SucceededNames == {g[i].r : i \in {k \in 1..Len(g) : g[k].res = "ok"}}
Distinct(q) == \A i, j \in 1..Len(q) : q[i] = q[j] => i = j

\* The lower-case hex spelling of a byte string, by table.
HexTable == <<48, 49, 50, 51, 52, 53, 54, 55, 56, 57, 97, 98, 99, 100, 101, 102>>
HexOf(bs) ==
    [k \in 1..(2 * Len(bs)) |->
        LET b == bs[(k + 1) \div 2]
        IN  HexTable[(IF k % 2 = 1 THEN b \div 16 ELSE b % 16) + 1]]

\* ------------------------------------------------------------------------
\* Properties
\* ------------------------------------------------------------------------

\* C1: when syncAll returns for a list of N distinct names of which K
\* fetches failed, the returned map has exactly N-K entries, its keys are
\* exactly the names fetched successfully, each value is the document fetched
\* for its key (never an error body), and no goroutine panicked.
C1_PartialSuccess ==
    (sa_pc = "returned" /\ Distinct(repos)) =>
        /\ Len(g) = Len(repos)
        /\ DOMAIN ret = SucceededNames
        /\ Cardinality(DOMAIN ret) = Len(repos) - Cardinality(FailedFetches)
        /\ \A i \in FailedFetches : g[i].r \notin DOMAIN ret
        /\ \A i \in 1..Len(g) :
              g[i].res = "ok" =>
                 /\ ret[g[i].r] = g[i].body
                 /\ ret[g[i].r] \in {<<"readme", g[i].r>>, <<"readme2", g[i].r>>}
        /\ ~crashed

C1_Witness ==
    /\ sa_pc = "returned" /\ Len(repos) = 2 /\ Distinct(repos)
    /\ Cardinality(FailedFetches) = 1
    /\ Cardinality(DOMAIN ret) = 1

\* C2: once syncAll has returned, every name of the list has had its fetch
\* goroutine launched and every one of them has finished (result received by
\* the range loop or failure logged, and wg.Done called); none is fetching
\* or waiting on its send.
C2_JoinBarrier ==
    sa_pc = "returned" =>
        /\ Len(g) = Len(repos)
        /\ \A i \in 1..Len(g) : g[i].pc = "done"
        /\ wg = 0

C2_Witness ==
    /\ sa_pc = "returned" /\ Len(g) = 2
    /\ \E i \in 1..Len(g) : g[i].res = "ok"
    /\ \A i \in 1..Len(g) : g[i].pc = "done"

\* C3: ServeHTTP is past the signature check exactly when verifyWebhook
\* returned true for the request's body and signature, and no event-specific
\* step (pong, decoding, ref parsing, fetch, file write, hugo, syncAll) has
\* been taken unless it did.
C3_AuthGate ==
    entry = "ServeHTTP" =>
        /\ PastGate <=> VerifierTrue
        /\ did # {} => VerifierTrue
        /\ ~NoSideEffects => VerifierTrue

C3_Witness == VerifierTrue /\ "fetch" \in did /\ hugoRuns = 1

\* C4 (as claimed): a sync-all POST with the signature syncall computes and
\* repos ["a","b"] ends with status 200 after both names were fetched, and
\* every fetch that failed is in the log.
C4_BulkSyncSucceeds ==
    ( /\ Finished
      /\ r.method = "POST" /\ r.event = "sync-all" /\ ~r.readErr
      /\ r.sig = SignHeader(hookSecret, r.payload.raw)
      /\ r.payload.decodes /\ r.payload.Repos = <<"a", "b">> ) =>
        /\ status = <<200>>
        /\ \A n \in {"a", "b"} : \E k \in 1..Len(fetched) : fetched[k] = n
        /\ \A i \in FailedFetches : \E k \in 1..Len(logged) : logged[k].name = g[i].r

\* The X-Hub-Signature value is absent, shorter than the tag or does not
\* start with "sha1=".
Malformed(sig) == Len(sig) < 5 \/ SubSeq(sig, 1, 5) # Sha1Prefix

\* C5 (as claimed): a POST with event push or ping whose X-Hub-Signature is
\* malformed ends with one 4xx status, and verifyWebhook is never called.
C5_MalformedRejected ==
    ( /\ Finished
      /\ r.method = "POST" /\ r.event \in {"push", "ping"} /\ ~r.readErr
      /\ Malformed(r.sig) ) =>
        /\ Len(status) = 1 /\ status[1] >= 400 /\ status[1] < 500
        /\ vcalls = <<>>

\* C6: a ping POST with a valid signature never fetches, writes or runs
\* hugo, and ends with status 200 and body "pong", whatever its body.
C6_Ping ==
    ( /\ r.method = "POST" /\ r.event = "ping" /\ ~r.readErr
      /\ r.sig = SignHeader(hookSecret, r.payload.raw) ) =>
        /\ NoSideEffects
        /\ did \subseteq {"pong"}
        /\ Finished => (pc = "responded" /\ status = <<200>> /\ wbody = <<"pong">>)

C6_Witness ==
    /\ r.method = "POST" /\ r.event = "ping" /\ ~r.readErr
    /\ r.sig = SignHeader(hookSecret, r.payload.raw)
    /\ ~r.payload.decodes
    /\ pc = "responded" /\ wbody = <<"pong">>

\* C7: an authenticated push of ref "refs/heads/master" for repository
\* "foo" fetches "foo" once and nothing else: at most one fetch at any time,
\* exactly one when the request is over.
C7_PushMasterFetchesOnce ==
    (AuthPush /\ r.payload.Ref = RefMaster /\ r.payload.Name = "foo") =>
        /\ fetched \in {<<>>, <<"foo">>}
        /\ Finished => fetched = <<"foo">>

C7_Witness ==
    /\ AuthPush /\ r.payload.Ref = RefMaster /\ r.payload.Name = "foo"
    /\ r.payload.Repos = <<"a", "b">>
    /\ Finished /\ fetched = <<"foo">>

\* C8: an authenticated push whose ref has three segments, the third not
\* "master", has no side effect and ends with status 200.
C8_OtherBranchIgnored ==
    ( /\ AuthPush
      /\ NumSegments(r.payload.Ref) = 3
      /\ LastSegment(r.payload.Ref) # Master ) =>
        /\ NoSideEffects
        /\ Finished => (pc = "responded" /\ status = <<200>> /\ wbody = <<>>)

C8_Witness ==
    /\ AuthPush /\ r.payload.Ref = RefDev
    /\ pc = "responded" /\ status = <<200>>

\* C9: an authenticated push whose ref does not have exactly three segments
\* has no side effect and ends with status 400, also when its last segment
\* is "master".
C9_BadRefRejected ==
    (AuthPush /\ NumSegments(r.payload.Ref) # 3) =>
        /\ NoSideEffects
        /\ Finished => (pc = "responded" /\ status = <<400>>)

C9_Witness ==
    /\ AuthPush /\ r.payload.Ref = RefFourMaster
    /\ LastSegment(r.payload.Ref) = Master
    /\ pc = "responded" /\ status = <<400>>

\* C10: verifyWebhook returns (true, nil) for the lower-case hex spelling of
\* the digest of (secret, body) and (false, nil) for every other signature.
C10_VerifyExact ==
    v_out # <<>> =>
        /\ ~v_out[1].err
        /\ v_out[1].ok <=>
             (v_in[1].mac = HexOf(HmacSum(v_in[1].secret, v_in[1].body)))

C10_Witness ==
    /\ v_out # <<>> /\ ~v_out[1].ok
    /\ LET good == HexOf(HmacSum(v_in[1].secret, v_in[1].body))
       IN  \E i \in 1..Len(good), b \in 0..7 :
              v_in[1].mac = FlipByte(good, i, Pow2(b))

\* Something of one of the kinds was logged as an error.
LoggedErr(kinds) == \E k \in 1..Len(logged) : logged[k].err \in kinds

\* The request is a POST of a push or a ping whose body was read.
Readable == r.method = "POST" /\ r.event \in {"push", "ping"} /\ ~r.readErr

\* The bytes after the first five of X-Hub-Signature are the digest.
DigestMatches ==
    /\ Len(r.sig) >= 5
    /\ SubSeq(r.sig, 6, Len(r.sig)) = HexOf(HmacSum(hookSecret, r.payload.raw))

\* The status line of the answer as the code gives it, by cause: <<>> when
\* ServeHTTP panics on a signature header of fewer than five bytes.
StatusByCause ==
    IF r.method # "POST" THEN <<405>>
    ELSE IF r.event \notin {"push", "ping"} THEN <<400>>
    ELSE IF r.readErr THEN <<500>>
    ELSE IF Len(r.sig) < 5 THEN <<>>
    ELSE IF ~DigestMatches THEN <<400>>
    ELSE IF r.event = "ping" THEN <<200>>
    ELSE IF ~r.payload.decodes THEN <<400>>
    ELSE IF NumSegments(r.payload.Ref) # 3 THEN <<400>>
    ELSE IF LastSegment(r.payload.Ref) # Master THEN <<200>>
    ELSE IF LoggedErr({"non200", "neterr", "createErr", "executeErr", "exitErr"})
         THEN <<500>>
    ELSE <<200>>

\* The status line as C11 words it: 400 for a bad method and for a malformed
\* signature header.  (sync-all requests are left to C4 and C19.)
StatusAsClaimed ==
    IF r.method # "POST" THEN <<400>>
    ELSE IF r.event \notin {"push", "ping"} THEN <<400>>
    ELSE IF r.readErr THEN <<500>>
    ELSE IF Malformed(r.sig) THEN <<400>>
    ELSE StatusByCause

\* C11 (as claimed): every status is 200, 400 or 500, with 400 for a bad
\* method, a bad event type, a malformed signature header, a signature
\* mismatch, a bad ref and undecodable JSON, 500 for fetch, write and hugo
\* errors, 200 for success, ignored branch and pong.
C11_StatusAsClaimed ==
    (entry = "ServeHTTP" /\ r.event # "sync-all") =>
        /\ \A k \in 1..Len(status) : status[k] \in {200, 400, 500}
        /\ Finished => status = StatusAsClaimed

\* C11 (amended): every status is 200, 400, 405 or 500: 405 for a method
\* other than POST; 400 for an event other than push and ping, for a
\* signature header of five bytes or more whose rest is not the digest, for
\* undecodable JSON and for a ref not of three segments; 500 for a body that
\* cannot be read and for fetch, write and hugo errors; 200 for pong, an
\* ignored branch and success.  A signature header of fewer than five bytes
\* gets no status at all.
C11_StatusClasses ==
    entry = "ServeHTTP" =>
        /\ \A k \in 1..Len(status) : status[k] \in {200, 400, 405, 500}
        /\ Finished => status = StatusByCause

C11_Witness ==
    /\ entry = "ServeHTTP" /\ r.method = "GET"
    /\ pc = "responded" /\ status = <<405>>

\* C12 (as claimed): a request that is over has had exactly one status
\* written, and no body unless the status is 200.
C12_OneStatus ==
    (entry = "ServeHTTP" /\ Finished) =>
        /\ Len(status) = 1
        /\ status[1] # 200 => wbody = <<>>

\* An authenticated push to master.
AuthPushMaster ==
    /\ AuthPush
    /\ NumSegments(r.payload.Ref) = 3
    /\ LastSegment(r.payload.Ref) = Master

\* C14: when the fetch of an authenticated push to master fails (another
\* status or a transport error), the request ends at once with status 500,
\* no file is created or written (the error body is not kept) and hugo is
\* not run.
C14_PushFetchFailureFatal ==
    (AuthPushMaster /\ LoggedErr({"non200", "neterr"})) =>
        /\ pc = "responded" /\ status = <<500>>
        /\ fetched = <<r.payload.Name>>
        /\ readmes = EmptyMap /\ todo = {}
        /\ created = {} /\ written = {} /\ hugoRuns = 0

C14_Witness ==
    /\ AuthPushMaster /\ pc = "responded" /\ status = <<500>>
    /\ logged = <<[err |-> "non200", name |-> "foo"]>>

\* C15: for an authenticated push to master whose fetch succeeded: only the
\* file of the fetched repository is created and written; hugo runs at most
\* once and only after that file was written without error; status 200 is
\* given only after hugo ran without error; a failed write gives 500 with
\* hugo never run, a failed hugo run gives 500, and in both cases what was
\* created or written stays.
C15_OutputStage ==
    (AuthPushMaster /\ fetched # <<>> /\ ~LoggedErr({"non200", "neterr"})) =>
        LET name == r.payload.Name
        IN  /\ fetched = <<name>>
            /\ readmes \in {MapSet(EmptyMap, name, <<"readme", name>>),
                            MapSet(EmptyMap, name, <<"readme2", name>>)}
            /\ created \subseteq {name} /\ written \subseteq created
            /\ hugoRuns <= 1
            /\ hugoRuns = 1 =>
                 (written = {name} /\ ~LoggedErr({"createErr", "executeErr"}))
            /\ pc = "hugo" => written = {name}
            /\ 200 \in {status[k] : k \in 1..Len(status)} =>
                 /\ hugoRuns = 1 /\ ~LoggedErr({"exitErr"})
                 /\ logged = <<[err |-> "", name |-> "hugo"]>>
            /\ LoggedErr({"createErr"}) =>
                 (status = <<500>> /\ hugoRuns = 0 /\ created = {} /\ written = {})
            /\ LoggedErr({"executeErr"}) =>
                 (status = <<500>> /\ hugoRuns = 0 /\ created = {name} /\ written = {})
            /\ LoggedErr({"exitErr"}) =>
                 (status = <<500>> /\ hugoRuns = 1 /\ written = {name})
            /\ Finished => (status = <<200>> \/ status = <<500>>)

C15_Witness ==
    /\ AuthPushMaster /\ pc = "responded" /\ status = <<500>>
    /\ LoggedErr({"exitErr"}) /\ written = {"foo"} /\ created = {"foo"}

\* C19 (as claimed): a sync-all POST with a valid signature and a body that
\* decodes ends with status 200 after syncAll has returned, having fetched
\* exactly the names of repos, with no file created or written and hugo
\* not run.
C19_BulkSyncAsymmetry ==
    ( /\ Finished
      /\ r.method = "POST" /\ r.event = "sync-all" /\ ~r.readErr
      /\ r.sig = SignHeader(hookSecret, r.payload.raw)
      /\ r.payload.decodes ) =>
        /\ status = <<200>>
        /\ sa_pc = "returned" /\ repos = r.payload.Repos
        /\ Len(fetched) = Len(r.payload.Repos)
        /\ created = {} /\ written = {} /\ hugoRuns = 0

\* C16: the results map is stored into only by the body of the range loop,
\* in syncAll's own goroutine and before syncAll returns: every step that
\* changes the map or adds a store is that loop body, and the store is
\* syncAll's.  The fetch goroutines and the closer never store.
C16_SingleCollector ==
    [][ (results' # results \/ writes' # writes) =>
           /\ sa_pc = "store" /\ sa_pc' = "range"
           /\ Len(writes') = Len(writes) + 1
           /\ \A k \in 1..Len(writes') : writes'[k].by = "syncAll"
           /\ g' = g /\ closer' = closer /\ chClosed' = chClosed ]_vars

C16_Witness ==
    /\ sa_pc = "returned" /\ Len(writes) = 2
    /\ \A k \in 1..Len(writes) : writes[k].by = "syncAll"

\* C17: under fair scheduling every call of syncAll, whatever the list and
\* the outcomes of the fetches, comes to the state where syncAll has
\* returned, every goroutine was launched and has finished, every result
\* sent was stored, the closer has finished and the channel is closed.
C17_Terminates ==
    <>( /\ sa_pc = "returned"
        /\ Len(g) = Len(repos)
        /\ \A i \in 1..Len(g) : g[i].pc = "done"
        /\ cur = <<>>
        /\ closer = "done" /\ chClosed )

C17_Witness ==
    /\ sa_pc = "returned" /\ Len(repos) = 2 /\ closer = "done"
    /\ \A i \in 1..Len(g) : g[i].res = "failed" /\ g[i].pc = "done"

\* The stores of results fetched for name n, as positions in writes.
StoresOf(n) == {k \in 1..Len(writes) : g[writes[k].from].r = n}
Last(S) == CHOOSE k \in S : \A j \in S : j <= k

\* C18: for any list, repeated names included, the keys of the returned map
\* are the names of the list with at least one successful fetch, every
\* successful fetch was stored once, and the value of a key is the document
\* of the last result stored for that name, a successful fetch of that name.
C18_LastWriterWins ==
    sa_pc = "returned" =>
        /\ DOMAIN ret = SucceededNames
        /\ DOMAIN ret \subseteq {repos[k] : k \in 1..Len(repos)}
        /\ {writes[k].from : k \in 1..Len(writes)}
              = {i \in 1..Len(g) : g[i].res = "ok"}
        /\ Len(writes) = Cardinality({i \in 1..Len(g) : g[i].res = "ok"})
        /\ \A n \in DOMAIN ret :
              LET w == writes[Last(StoresOf(n))].from
              IN  /\ g[w].r = n /\ g[w].res = "ok"
                  /\ ret[n] = g[w].body
                  /\ ret[n] \in {<<"readme", n>>, <<"readme2", n>>}

C18_Witness ==
    /\ sa_pc = "returned" /\ repos = <<"a", "a">>
    /\ Len(writes) = 2 /\ writes[2].from = 1
    /\ g[1].body # g[2].body
    /\ ret["a"] = g[1].body

\* C20: the channel is closed at most once, and once when syncAll returns;
\* the closer gets past wg.Wait only when the counter is zero after every
\* wg.Add was made and every fetch goroutine has finished; no goroutine is
\* fetching or waiting to send once the channel is closed; the counter is
\* the number of launched goroutines that have not called Done, never
\* negative; and nothing panics.
C20_CloseSafety ==
    entry = "syncAll" =>
        /\ closes <= 1 /\ (chClosed <=> closes = 1)
        /\ chClosed => closer = "done"
        /\ closer \in {"close", "done"} =>
             /\ wg = 0
             /\ sa_i = Len(repos) /\ Len(g) = Len(repos)
             /\ \A i \in 1..Len(g) : g[i].pc = "done"
        /\ wg = Cardinality({i \in 1..Len(g) : g[i].pc # "done"})
        /\ wg >= 0
        /\ sa_pc = "returned" => closes = 1
        /\ ~crashed

C20_Witness ==
    /\ chClosed /\ closes = 1 /\ sa_pc = "range" /\ Len(g) = 2
    /\ \E i \in 1..Len(g) : g[i].res = "ok"

\* C13: syncall sends nothing and exits with code 1 when the secret is
\* unset, the URL is unset or no name is given; it calls the hook at most
\* once and only with all three present, with the sync-all event and the
\* signature of the body it sends; a call that fails ends the process with
\* a non-zero code.
C13_TriggerFailsFast ==
    entry = "syncall" =>
        /\ (t_env.secret = <<>> \/ t_env.endpoint = "" \/ t_env.args = <<>>) =>
              /\ t_sent = <<>>
              /\ t_pc \in {"secret", "endpoint", "args", "exited"}
              /\ t_pc = "exited" => t_exit = 1
        /\ Len(t_sent) <= 1
        /\ t_sent # <<>> =>
              /\ t_env.secret # <<>> /\ t_env.endpoint # "" /\ t_env.args # <<>>
              /\ t_sent[1].event = "sync-all"
              /\ t_sent[1].sig = Sha1Prefix \o HexOf(HmacSum(t_env.secret, t_sent[1].body))
              /\ t_sent[1].out = "neterr" => (t_pc = "exited" /\ t_exit > 0)
        /\ t_exit = 0 => (t_sent # <<>> /\ t_sent[1].out # "neterr")

C13_Witness ==
    /\ entry = "syncall" /\ t_pc = "exited" /\ t_exit = 2
    /\ Len(t_sent) = 1 /\ t_sent[1].out = "neterr"
    /\ t_env.args = <<"a", "b">>

====
